---- MODULE Spec2Model ----
(***************************************************************************)
(* Model of the foodgram backend (src/backend): the relational store, the  *)
(* relation-edge handlers of api/views.py (favorite, shopping_cart,        *)
(* subscribe), the recipe writer of api/serializers.py and the short-code  *)
(* generator of recipes/models.py.                                         *)
(*                                                                         *)
(* Every request is served by a worker.  A handler that queries the store  *)
(* several times is a sequence of steps, one per query, so that the        *)
(* check-then-insert windows of the source (exists() then create(),        *)
(* generate_short_code() then save()) can interleave between workers.      *)
(* A block under @transaction.atomic is one step: the store isolates it.   *)
(* Tables are bags of rows: what keeps a row unique is the constraint      *)
(* declared in the model's Meta, applied when the row is inserted.         *)
(***************************************************************************)
EXTENDS Integers, Sequences, FiniteSets, Bags, TLC

(***************************************************************************)
(* Bounds of the model.                                                    *)
(***************************************************************************)
\* recipe primary keys range over 1..MaxRecipes
MaxRecipes == 3
\* the length of a short code (recipes.constants.MAX_CODE_LENGTH, cut down)
MAX_CODE_LENGTH == 1

(***************************************************************************)
(* HTTP statuses used by the handlers.                                     *)
(***************************************************************************)
HTTP_200_OK == 200
HTTP_201_CREATED == 201
HTTP_204_NO_CONTENT == 204
HTTP_400_BAD_REQUEST == 400
HTTP_401_UNAUTHORIZED == 401
HTTP_403_FORBIDDEN == 403
HTTP_404_NOT_FOUND == 404
HTTP_500_INTERNAL_SERVER_ERROR == 500

(***************************************************************************)
(* Who sends requests, and which keys they name.                           *)
(***************************************************************************)
\* the workers serving requests
Procs == {"w1", "w2"}
\* rows of the User table (users are never deleted)
User == {"u1", "u2"}
\* request.user of a request without a token
AnonymousUser == "anonymous"
\* user keys a URL can name: the users and one key no user has
UserPks == User \cup {"u0"}
\* recipe keys a URL can name
RecipePks == 1..MaxRecipes

VARIABLES
    tag,          \* Tag table: the ids of its rows
    ingredient,   \* Ingredient table: the ids of its rows
    recipe,       \* Recipe table: set of rows [id, author, name, cooking_time, short_code]
    recipe_tags,  \* Recipe.tags through table: bag of <<recipe id, tag id>>
    ingredient_in_recipe, \* IngredientInRecipe table: bag of [recipe, ingredient, amount]
    recipe_id_seq, \* the last key the Recipe table gave out: a key is never given twice
    objects,      \* objects[model]: bag of edge rows <<user, target>> of Favorite, ShoppingCart, Follow
    pc,           \* pc[w]: the step worker w is at
    req,          \* req[w]: the request worker w serves
    resp          \* resp[w]: the response worker w produced

storeVars == <<tag, ingredient, recipe, recipe_tags, ingredient_in_recipe, recipe_id_seq>>
vars == <<tag, ingredient, recipe, recipe_tags, ingredient_in_recipe, recipe_id_seq, objects,
          pc, req, resp>>

NoRequest == [action |-> "none"]
NoResponse == [status |-> 0, data |-> {}]
Response(data, status) == [status |-> status, data |-> data]

(***************************************************************************)
(* Store queries and constraints.                                          *)
(***************************************************************************)
\* Recipe.objects.filter(id=pk).exists(), the test of get_object_or_404(Recipe, id=pk)
RecipeExists(pk) == \E r \in recipe : r.id = pk

\* Exists when the existence pre-check is left out
ExistsNever(model, user, target) == FALSE

\* model.objects.filter(user=user, <target>=target).exists()
Exists(model, user, target) == BagIn(<<user, target>>, objects[model])

\* UniqueViolation when the model declares no UniqueConstraint
UniqueViolationNone(model, row) == FALSE

\* UniqueConstraint(fields=[user, recipe]) / (fields=[user, author])
UniqueViolation(model, row) == BagIn(row, objects[model])

\* CheckConstraint(check=~Q(user=F('author')), name='no_self_follow')
CheckViolation(model, row) == model = "Follow" /\ row[1] = row[2]

\* recipe = models.ForeignKey(Recipe, ...): the row of a recipe that is gone
ForeignKeyViolation(model, row) == model # "Follow" /\ ~ RecipeExists(row[2])

\* the INSERT of an edge row raises IntegrityError
IntegrityError(model, row) ==
    UniqueViolation(model, row) \/ CheckViolation(model, row) \/ ForeignKeyViolation(model, row)

\* model.objects.create(...): the table after a successful INSERT
Inserted(model, row) == [objects EXCEPT ![model] = @ (+) SetToBag({row})]

\* Deleted when the filter forgets the user and the target: the whole table goes
DeletedUnfiltered(model, row) == [objects EXCEPT ![model] = EmptyBag]

\* model.objects.filter(user=..., <target>=...).delete(): every matching row goes
Deleted(model, row) ==
    [objects EXCEPT ![model] = [x \in DOMAIN @ \ {row} |-> @[x]]]

\* the number of rows filter(...).delete() reports
DeletedCount(model, row) == CopiesIn(row, objects[model])

Reply(w, response) ==
    /\ resp' = [resp EXCEPT ![w] = response]
    /\ pc' = [pc EXCEPT ![w] = "done"]

Goto(w, step) ==
    /\ pc' = [pc EXCEPT ![w] = step]
    /\ UNCHANGED resp

(***************************************************************************)
(* RecipeViewSet.favorite / shopping_cart: dispatch on the method.         *)
(***************************************************************************)
ModelOf(action) == IF action = "favorite" THEN "Favorite" ELSE "ShoppingCart"

\* @action(detail=True, methods=['POST', 'DELETE'], permission_classes=(IsAuthenticated,))
favorite(w) ==
    /\ pc[w] = "idle"
    /\ \E method \in {"POST", "DELETE"}, user \in User \cup {AnonymousUser}, pk \in RecipePks :
        /\ req' = [req EXCEPT ![w] = [action |-> "favorite", method |-> method,
                                      user |-> user, pk |-> pk]]
        /\ IF user = AnonymousUser
           THEN Reply(w, Response({"detail"}, HTTP_401_UNAUTHORIZED))
           ELSE Goto(w, IF method = "POST" THEN "add_exists" ELSE "delete_get")
    /\ UNCHANGED <<storeVars, objects>>

shopping_cart(w) ==
    /\ pc[w] = "idle"
    /\ \E method \in {"POST", "DELETE"}, user \in User \cup {AnonymousUser}, pk \in RecipePks :
        /\ req' = [req EXCEPT ![w] = [action |-> "shopping_cart", method |-> method,
                                      user |-> user, pk |-> pk]]
        /\ IF user = AnonymousUser
           THEN Reply(w, Response({"detail"}, HTTP_401_UNAUTHORIZED))
           ELSE Goto(w, IF method = "POST" THEN "add_exists" ELSE "delete_get")
    /\ UNCHANGED <<storeVars, objects>>

(***************************************************************************)
(* RecipeViewSet.add_recipe(model, user, pk)                               *)
(***************************************************************************)
\* if model.objects.filter(user=user, recipe_id=pk).exists(): 400
add_recipe_exists(w) ==
    /\ pc[w] = "add_exists"
    /\ IF Exists(ModelOf(req[w].action), req[w].user, req[w].pk)
       THEN Reply(w, Response({"errors"}, HTTP_400_BAD_REQUEST))
       ELSE Goto(w, "add_get")
    /\ UNCHANGED <<storeVars, objects, req>>

\* recipe = get_object_or_404(Recipe, id=pk)
add_recipe_get(w) ==
    /\ pc[w] = "add_get"
    /\ IF RecipeExists(req[w].pk)
       THEN Goto(w, "add_create")
       ELSE Reply(w, Response({"detail"}, HTTP_404_NOT_FOUND))
    /\ UNCHANGED <<storeVars, objects, req>>

\* model.objects.create(user=user, recipe=recipe); 201 with the short recipe view.
\* An IntegrityError is not caught: the request ends with a server error.
add_recipe_create(w) ==
    /\ pc[w] = "add_create"
    /\ LET model == ModelOf(req[w].action)
           row == <<req[w].user, req[w].pk>>
       IN IF IntegrityError(model, row)
          THEN /\ Reply(w, Response({"IntegrityError"}, HTTP_500_INTERNAL_SERVER_ERROR))
               /\ UNCHANGED objects
          ELSE /\ objects' = Inserted(model, row)
               /\ Reply(w, Response({"recipe_short"}, HTTP_201_CREATED))
    /\ UNCHANGED <<storeVars, req>>

(***************************************************************************)
(* RecipeViewSet.delete_recipe(model, user, pk)                            *)
(***************************************************************************)
\* recipe = get_object_or_404(Recipe, id=pk)
delete_recipe_get(w) ==
    /\ pc[w] = "delete_get"
    /\ IF RecipeExists(req[w].pk)
       THEN Goto(w, "delete_delete")
       ELSE Reply(w, Response({"detail"}, HTTP_404_NOT_FOUND))
    /\ UNCHANGED <<storeVars, objects, req>>

\* deleted, _ = model.objects.filter(user=user, recipe=recipe).delete()
\* if not deleted: 400 {'errors': ...}; else 204 without a body
delete_recipe_delete(w) ==
    /\ pc[w] = "delete_delete"
    /\ LET model == ModelOf(req[w].action)
           row == <<req[w].user, req[w].pk>>
       IN /\ objects' = Deleted(model, row)
          /\ IF DeletedCount(model, row) = 0
             THEN Reply(w, Response({"errors"}, HTTP_400_BAD_REQUEST))
             ELSE Reply(w, Response({}, HTTP_204_NO_CONTENT))
    /\ UNCHANGED <<storeVars, req>>

(***************************************************************************)
(* UserViewSet.edit_subscriptions / subscribe_user / unsubscribe_user      *)
(***************************************************************************)
\* IsSelf when subscribe_user has no self-follow test
IsSelfNever(user, author) == FALSE

\* the self-follow test of subscribe_user: if user == author
IsSelf(user, author) == user = author

\* user = request.user; author = get_object_or_404(User, pk=pk); dispatch on the
\* method; subscribe_user starts with the self-follow test (the User table is fixed,
\* so the lookup and the test read nothing another worker can change)
edit_subscriptions(w) ==
    /\ pc[w] = "idle"
    /\ \E method \in {"POST", "DELETE"}, user \in User \cup {AnonymousUser}, pk \in UserPks :
        /\ req' = [req EXCEPT ![w] = [action |-> "subscribe", method |-> method,
                                      user |-> user, pk |-> pk]]
        /\ IF user = AnonymousUser
           THEN Reply(w, Response({"detail"}, HTTP_401_UNAUTHORIZED))
           ELSE IF pk \notin User
           THEN Reply(w, Response({"detail"}, HTTP_404_NOT_FOUND))
           ELSE IF method = "DELETE"
           THEN Goto(w, "unsubscribe_exists")
           ELSE IF IsSelf(user, pk)
           THEN Reply(w, Response({"detail"}, HTTP_400_BAD_REQUEST))
           ELSE Goto(w, "subscribe_get")
    /\ UNCHANGED <<storeVars, objects>>

\* Follow.objects.get_or_create(user=user, author=author): the first get().
\* Found: created is False, 400.
subscribe_user_get(w) ==
    /\ pc[w] = "subscribe_get"
    /\ IF Exists("Follow", req[w].user, req[w].pk)
       THEN Reply(w, Response({"detail"}, HTTP_400_BAD_REQUEST))
       ELSE Goto(w, "subscribe_create")
    /\ UNCHANGED <<storeVars, objects, req>>

\* get_or_create: the create() after DoesNotExist. On IntegrityError it gets again.
subscribe_user_create(w) ==
    /\ pc[w] = "subscribe_create"
    /\ LET row == <<req[w].user, req[w].pk>>
       IN IF IntegrityError("Follow", row)
          THEN /\ Goto(w, "subscribe_retry")
               /\ UNCHANGED objects
          ELSE /\ objects' = Inserted("Follow", row)
               /\ Reply(w, Response({"subscribe"}, HTTP_201_CREATED))
    /\ UNCHANGED <<storeVars, req>>

\* get_or_create: the get() after IntegrityError; found: created is False, 400;
\* still not found: the IntegrityError is raised again.
subscribe_user_retry(w) ==
    /\ pc[w] = "subscribe_retry"
    /\ IF Exists("Follow", req[w].user, req[w].pk)
       THEN Reply(w, Response({"detail"}, HTTP_400_BAD_REQUEST))
       ELSE Reply(w, Response({"IntegrityError"}, HTTP_500_INTERNAL_SERVER_ERROR))
    /\ UNCHANGED <<storeVars, objects, req>>

\* subscription = user.follower.filter(author=author); if subscription.exists()
unsubscribe_user_exists(w) ==
    /\ pc[w] = "unsubscribe_exists"
    /\ IF Exists("Follow", req[w].user, req[w].pk)
       THEN Goto(w, "unsubscribe_delete")
       ELSE Reply(w, Response({"detail"}, HTTP_400_BAD_REQUEST))
    /\ UNCHANGED <<storeVars, objects, req>>

\* subscription.delete(); 204 without a body
unsubscribe_user_delete(w) ==
    /\ pc[w] = "unsubscribe_delete"
    /\ objects' = Deleted("Follow", <<req[w].user, req[w].pk>>)
    /\ Reply(w, Response({}, HTTP_204_NO_CONTENT))
    /\ UNCHANGED <<storeVars, req>>

\* the response is sent; the worker takes the next request
Finish(w) ==
    /\ pc[w] = "done"
    /\ pc' = [pc EXCEPT ![w] = "idle"]
    /\ req' = [req EXCEPT ![w] = NoRequest]
    /\ resp' = [resp EXCEPT ![w] = NoResponse]
    /\ UNCHANGED <<storeVars, objects>>


(***************************************************************************)
(* Recipe.generate_short_code and the short_code column.                   *)
(***************************************************************************)
\* string.ascii_lowercase, string.digits
ascii_lowercase == <<"a", "b", "c", "d", "e", "f", "g", "h", "i", "j", "k", "l", "m",
                     "n", "o", "p", "q", "r", "s", "t", "u", "v", "w", "x", "y", "z">>
digits == <<"0", "1", "2", "3", "4", "5", "6", "7", "8", "9">>

\* characters = string.ascii_lowercase + string.digits
characters == ascii_lowercase \o digits

\* the outcomes of random.choices the model draws: the first and the last character
RandomIndex == {1, Len(characters)}

\* ''.join(random.choices(characters, k=MAX_CODE_LENGTH)) for the drawn indices
Join(idx) == [i \in 1..MAX_CODE_LENGTH |-> characters[idx[i]]]

\* Recipe.objects.filter(short_code=short_code).exists()
ShortCodeExists(short_code) == \E r \in recipe : r.short_code = short_code

(***************************************************************************)
(* RecipeWriteSerializer: validation.  Request data is a dict: a function  *)
(* whose domain is the set of fields the request supplies.  The model      *)
(* carries the fields name, text and cooking_time, image (a base64 data    *)
(* URI: its header and its content), tags (a list of Tag ids) and          *)
(* ingredients (a list of [id, amount]).                                   *)
(***************************************************************************)
Fields == {"tags", "ingredients", "name", "image", "text", "cooking_time"}

\* set(value) of a list
ToSet(value) == {value[i] : i \in 1..Len(value)}

\* NotGet when validate tests 'key not in value' in place of 'not value.get(key)'
NotGetMissing(value, key) == key \notin DOMAIN value

\* dict.get(key) is falsy: the key is missing or its list is empty
NotGet(value, key) == key \notin DOMAIN value \/ value[key] = <<>>

\* the source of a declared field: ingredients has source='ingredient_in_recipe'
Source(field) == IF field = "ingredients" THEN "ingredient_in_recipe" ELSE field

\* IngredientInRecipeSerializer: id has source='ingredient.id', amount is itself
ItemInternal(item) == [ingredient |-> [id |-> item.id], amount |-> item.amount]

\* the image every request carries: a data URI, its header and its base64 content
ImageData == <<"data:image/png;base64,", "iVBORw0KGgo=">>

\* the description every request carries
TextData == "t"

\* Base64ImageField.to_internal_value: the header goes, the content is decoded
\* into a file named by a drawn identifier and the extension of its type
Base64ImageField(value) == [name |-> <<"uuid", ".png">>, content |-> value[2]]

\* to_internal_value: the validated dict, keyed by source, of the supplied fields
to_internal_value(data) ==
    [k \in {Source(f) : f \in DOMAIN data} |->
        CASE k = "ingredient_in_recipe" ->
                [i \in 1..Len(data.ingredients) |-> ItemInternal(data.ingredients[i])]
          [] k = "tags" -> data.tags
          [] k = "name" -> data.name
          [] k = "image" -> Base64ImageField(data.image)
          [] k = "text" -> data.text
          [] OTHER -> data.cooking_time]

\* validate_tags(value): len(value) != len(set(value))
validate_tags(value) ==
    IF Len(value) # Cardinality(ToSet(value)) THEN {"tags: unique"} ELSE {}

\* validate_ingredients when it checks nothing
validate_ingredients_pass(value) == {}

\* validate_ingredients(value): ingredient_ids = [item['ingredient']['id'] ...];
\* len(ingredient_ids) != len(set(ingredient_ids))
validate_ingredients(value) ==
    LET ingredient_ids == [i \in 1..Len(value) |-> value[i].ingredient.id]
    IN IF Len(ingredient_ids) # Cardinality(ToSet(ingredient_ids))
       THEN {"ingredients: unique"} ELSE {}

\* validate when it checks nothing
validate_pass(value) == {}

\* validate(value): value.get('ingredient_in_recipe') first, then value.get('tags')
validate(value) ==
    IF NotGet(value, "ingredient_in_recipe") THEN {"need ingredient"}
    ELSE IF NotGet(value, "tags") THEN {"need tag"}
    ELSE {}

\* the field checks of the declared fields: a field a full write does not supply is
\* required; PrimaryKeyRelatedField(queryset=Tag.objects.all() /
\* Ingredient.objects.all()) refuses a key without a row; then validate_<field>
\* runs on the field's validated value
field_errors(data, partial) ==
    {k \o ": required" : k \in IF partial THEN {} ELSE Fields \ DOMAIN data}
    \cup (IF "tags" \notin DOMAIN data THEN {}
          ELSE IF ~ (ToSet(data.tags) \subseteq tag) THEN {"tags: does_not_exist"}
          ELSE validate_tags(to_internal_value(data).tags))
    \cup (IF "ingredients" \notin DOMAIN data THEN {}
          ELSE IF \E i \in 1..Len(data.ingredients) : data.ingredients[i].id \notin ingredient
               THEN {"ingredients: does_not_exist"}
          ELSE validate_ingredients(to_internal_value(data).ingredient_in_recipe))

\* serializer.is_valid(): the field errors, and validate() when there are none
errors(data, partial) ==
    IF field_errors(data, partial) # {} THEN field_errors(data, partial)
    ELSE validate(to_internal_value(data))

(***************************************************************************)
(* RecipeReadSerializer: a recipe written out.  The Ingredient rows and    *)
(* the Tag rows are catalogues: the key of a row and its columns           *)
(* (unique_ingredient_unit: no two Ingredient rows with the same name and  *)
(* unit).                                                                  *)
(***************************************************************************)
Ingredient ==
    [i \in {1, 2, 3} |->
        CASE i = 1 -> [name |-> "sugar", measurement_unit |-> "g"]
          [] i = 2 -> [name |-> "flour", measurement_unit |-> "g"]
          [] OTHER -> [name |-> "flour", measurement_unit |-> "kg"]]

\* the names in the ascending order of the store's collation
NameOrder == <<"breakfast", "flour", "lunch", "sugar">>
NameRank(name) == CHOOSE k \in 1..Len(NameOrder) : NameOrder[k] = name

Tag ==
    [t \in {1, 2} |->
        IF t = 1 THEN [name |-> "lunch", slug |-> "lunch"]
        ELSE [name |-> "breakfast", slug |-> "breakfast"]]

\* the lists that hold every element of S once
Orderings(S) ==
    {q \in [1..Cardinality(S) -> S] : \A i, j \in 1..Cardinality(S) : i # j => q[i] # q[j]}

\* TagSerializer: fields = ('id', 'name', 'slug')
TagSerializer(t) == [id |-> t, name |-> Tag[t].name, slug |-> Tag[t].slug]

\* IngredientInRecipeSerializer written out: id is the key of the line's
\* ingredient (source='ingredient.id'), name and measurement_unit are the
\* ingredient's, amount is the line's
IngredientInRecipeSerializer(line) ==
    [id |-> line.ingredient, name |-> Ingredient[line.ingredient].name,
     measurement_unit |-> Ingredient[line.ingredient].measurement_unit,
     amount |-> line.amount]

\* the image written out when the field gives back what was sent
image_as_sent(image) == ImageData

\* Base64ImageField.to_representation: the URL of the stored file
image_url(image) == <<"MEDIA_URL">> \o image

\* get_is_favorited / get_is_in_shopping_cart
is_in(model, user, obj) == user # AnonymousUser /\ BagIn(<<user, obj.id>>, objects[model])

\* RecipeReadSerializer(instance).data read from the tables db: the tags in
\* Tag.Meta.ordering (by name), the lines in the order the store gives them
RecipeReadSerializer(user, obj, db) ==
    {[id |-> obj.id, tags |-> [i \in DOMAIN tags |-> TagSerializer(tags[i])],
      author |-> [id |-> obj.author],
      ingredients |-> [i \in DOMAIN lines |-> IngredientInRecipeSerializer(lines[i])],
      is_favorited |-> is_in("Favorite", user, obj),
      is_in_shopping_cart |-> is_in("ShoppingCart", user, obj),
      name |-> obj.name, image |-> image_url(obj.image), text |-> obj.text,
      cooking_time |-> obj.cooking_time] :
        tags \in {q \in Orderings({row[2] : row \in {x \in DOMAIN db.recipe_tags : x[1] = obj.id}}) :
                    \A i, j \in DOMAIN q :
                        i < j => NameRank(Tag[q[i]].name) <= NameRank(Tag[q[j]].name)},
        lines \in Orderings({l \in DOMAIN db.ingredient_in_recipe : l.recipe = obj.id})}

(***************************************************************************)
(* The statements of a recipe write.  A write runs on st = [db, error]:    *)
(* db holds the three tables it touches, error the exception raised so     *)
(* far ("" for none); a statement after an exception is not run.           *)
(***************************************************************************)
Db == [recipe |-> recipe, recipe_tags |-> recipe_tags,
       ingredient_in_recipe |-> ingredient_in_recipe]
Begin == [db |-> Db, error |-> ""]
Raise(st, error) == [st EXCEPT !.error = error]

\* the unique index of short_code when the column is not declared unique
short_code_unique_off(rows, short_code) == FALSE

\* short_code = models.CharField(..., unique=True): the INSERT of a code a row has
short_code_unique(rows, short_code) == \E r \in rows : r.short_code = short_code

\* UniqueConstraint(fields=['ingredient', 'recipe'], name='unique_ingredient_recipe')
unique_ingredient_recipe(lines, row) ==
    \E l \in BagToSet(lines) : l.recipe = row.recipe /\ l.ingredient = row.ingredient

\* the key Recipe.objects.create gives the new row
NextId == recipe_id_seq + 1

\* INSERT INTO recipe
insert_recipe(st, row) ==
    IF st.error # "" THEN st
    ELSE IF short_code_unique(st.db.recipe, row.short_code)
    THEN Raise(st, "IntegrityError: short_code")
    ELSE [st EXCEPT !.db.recipe = @ \cup {row}]

\* the rows of a bag that satisfy keep
FilterBag(bag, keep(_)) == [x \in {y \in DOMAIN bag : keep(y)} |-> bag[x]]

\* instance.tags.clear()
tags_clear(st, id) ==
    IF st.error # "" THEN st
    ELSE [st EXCEPT !.db.recipe_tags = FilterBag(@, LAMBDA row : row[1] # id)]

\* ingredients_clear when update does not clear the old lines
ingredients_clear_skip(st, id) == st

\* instance.ingredients.clear(): the through rows of the recipe go
ingredients_clear(st, id) ==
    IF st.error # "" THEN st
    ELSE [st EXCEPT !.db.ingredient_in_recipe = FilterBag(@, LAMBDA l : l.recipe # id)]

\* recipe.tags.set(tags_data): rows of tags not in the list go, a tag of the list
\* gets a row unless it has one; the row of a tag the Tag table lost is refused
tags_set(st, id, tags_data) ==
    IF st.error # "" THEN st
    ELSE LET old == {row[2] : row \in {x \in DOMAIN st.db.recipe_tags : x[1] = id}}
             new == ToSet(tags_data) \ old
         IN IF ~ (new \subseteq tag) THEN Raise(st, "IntegrityError: tag")
            ELSE [st EXCEPT !.db.recipe_tags =
                    FilterBag(@, LAMBDA row : row[1] # id \/ row[2] \in ToSet(tags_data))
                    (+) SetToBag({<<id, t>> : t \in new})]

\* IngredientInRecipe(recipe=recipe, ingredient=ingredient['ingredient']['id'],
\*                    amount=ingredient['amount'])
Line(id, item) == [recipe |-> id, ingredient |-> item.ingredient.id, amount |-> item.amount]

\* IngredientInRecipe.objects.bulk_create(...): one INSERT of all the lines
bulk_create(st, id, ingredients_data) ==
    IF st.error # "" THEN st
    ELSE LET n == Len(ingredients_data)
             rows == [i \in 1..n |-> Line(id, ingredients_data[i])]
         IN IF \E i \in 1..n : rows[i].ingredient \notin ingredient
            THEN Raise(st, "IntegrityError: ingredient")
            ELSE IF \/ \E i \in 1..n : unique_ingredient_recipe(st.db.ingredient_in_recipe, rows[i])
                    \/ \E i, j \in 1..n : i < j /\ rows[i].ingredient = rows[j].ingredient
            THEN Raise(st, "IntegrityError: unique_ingredient_recipe")
            ELSE [st EXCEPT !.db.ingredient_in_recipe =
                    @ (+) [l \in ToSet(rows) |-> Cardinality({i \in 1..n : rows[i] = l})]]

\* create_tags_ingredients(recipe, tags_data, ingredients_data)
create_tags_ingredients(st, id, tags_data, ingredients_data) ==
    bulk_create(tags_set(st, id, tags_data), id, ingredients_data)

\* save_instance when save() draws a code on every save, not only on a blank one
save_instance_new_code(st, instance) ==
    IF st.error # "" THEN st
    ELSE LET unused == {Join(idx) : idx \in [1..MAX_CODE_LENGTH -> RandomIndex]}
                          \ {r.short_code : r \in st.db.recipe}
         IN [st EXCEPT !.db.recipe =
                {r \in @ : r.id # instance.id}
                \cup {[instance EXCEPT !.short_code =
                          IF unused = {} THEN @ ELSE CHOOSE c \in unused : TRUE]}]

\* instance.save() of a row that has a key: UPDATE of all its columns, and an
\* INSERT of the row when the UPDATE finds none (the recipe was deleted meanwhile)
save_instance(st, instance) ==
    IF st.error # "" THEN st
    ELSE IF short_code_unique({r \in st.db.recipe : r.id # instance.id}, instance.short_code)
    THEN Raise(st, "IntegrityError: short_code")
    ELSE [st EXCEPT !.db.recipe = {r \in @ : r.id # instance.id} \cup {instance}]

\* atomic when create and update are not decorated: what was written stays
atomic_off(st) == st.db

\* @transaction.atomic: an exception inside the block rolls the block back
atomic(st) == IF st.error # "" THEN Db ELSE st.db

\* validated_data.pop(key, default)
Pop(value, key, default) == IF key \in DOMAIN value THEN value[key] ELSE default

\* RecipeWriteSerializer.to_representation(instance): the instance of the key
\* pk read back by RecipeReadSerializer
to_representation(user, pk, db) ==
    RecipeReadSerializer(user, CHOOSE x \in db.recipe : x.id = pk, db)

\* the tables after the write of the recipe pk, and the response to it
Commit(w, st, pk, status) ==
    /\ recipe' = atomic(st).recipe
    /\ recipe_tags' = atomic(st).recipe_tags
    /\ ingredient_in_recipe' = atomic(st).ingredient_in_recipe
    /\ recipe_id_seq' = IF \E r \in atomic(st).recipe : r.id > recipe_id_seq
                        THEN recipe_id_seq + 1 ELSE recipe_id_seq
    /\ IF st.error # ""
       THEN Reply(w, Response({st.error}, HTTP_500_INTERNAL_SERVER_ERROR))
       ELSE \E data \in to_representation(req[w].user, pk, st.db) :
               Reply(w, [status |-> status, data |-> {"recipe"}, recipe |-> data])
    /\ UNCHANGED <<tag, ingredient, objects, req>>

(***************************************************************************)
(* RecipeViewSet create and update, served by RecipeWriteSerializer.       *)
(***************************************************************************)
\* image = models.ImageField(upload_to='recipes'): the column holds the name the
\* file is stored under
upload_to(file) == <<"recipes/">> \o file.name

\* the writes in flight that will insert a recipe row
Creating == {w \in Procs : pc[w] \in {"generate_short_code", "save"}}

\* create: get_permissions gives IsAuthenticated; serializer.is_valid(); then
\* create() starts with Recipe.objects.create(author=user, **validated_data), whose
\* save() finds short_code blank and calls generate_short_code
create(w, r) ==
    /\ pc[w] = "idle"
    /\ recipe_id_seq + Cardinality(Creating) < MaxRecipes
    /\ req' = [req EXCEPT ![w] = [action |-> "create", user |-> r.user, data |-> r.data,
                                  short_code |-> <<>>]]
    /\ IF r.user = AnonymousUser
       THEN Reply(w, Response({"detail"}, HTTP_401_UNAUTHORIZED))
       ELSE IF errors(r.data, FALSE) # {}
       THEN Reply(w, Response(errors(r.data, FALSE), HTTP_400_BAD_REQUEST))
       ELSE Goto(w, "generate_short_code")
    /\ UNCHANGED <<storeVars, objects>>

\* generate_short_code: one turn of the loop: draw a code, return it when no
\* recipe has it, draw again otherwise
generate_short_code(w) ==
    /\ pc[w] = "generate_short_code"
    /\ \E idx \in [1..MAX_CODE_LENGTH -> RandomIndex] :
        /\ req' = [req EXCEPT ![w].short_code = Join(idx)]
        /\ IF ShortCodeExists(Join(idx))
           THEN Goto(w, "generate_short_code")
           ELSE Goto(w, "save")
    /\ UNCHANGED <<storeVars, objects>>

\* the rest of create(): super().save() inserts the row, create_tags_ingredients
\* writes its tags and lines, all inside @transaction.atomic
save(w) ==
    /\ pc[w] = "save"
    /\ LET value == to_internal_value(req[w].data)
           row == [id |-> NextId, author |-> req[w].user, name |-> value.name,
                   image |-> upload_to(value.image), text |-> value.text,
                   cooking_time |-> value.cooking_time, short_code |-> req[w].short_code]
       IN Commit(w, create_tags_ingredients(insert_recipe(Begin, row), row.id,
                        value.tags, value.ingredient_in_recipe),
                 row.id, HTTP_201_CREATED)

\* is_author when the permission lets every user through
is_author_any(user, obj) == TRUE

\* IsAuthorOrReadOnly.has_object_permission for a write: request.user == obj.author
is_author(user, obj) == user = obj.author

\* update / partial_update: get_permissions gives IsAuthorOrReadOnly (a write needs
\* a user), get_object() loads the instance (kept in the request as the set of
\* rows found: one row, or none), has_object_permission wants the author, then
\* serializer.is_valid()
update(w, r) ==
    /\ pc[w] = "idle"
    /\ req' = [req EXCEPT ![w] = [action |-> "update", user |-> r.user, pk |-> r.pk,
                                  partial |-> r.partial, data |-> r.data,
                                  instance |-> {x \in recipe : x.id = r.pk}]]
    /\ IF r.user = AnonymousUser
       THEN Reply(w, Response({"detail"}, HTTP_401_UNAUTHORIZED))
       ELSE IF ~ RecipeExists(r.pk)
       THEN Reply(w, Response({"detail"}, HTTP_404_NOT_FOUND))
       ELSE IF ~ is_author(r.user, CHOOSE x \in recipe : x.id = r.pk)
       THEN Reply(w, Response({"detail"}, HTTP_403_FORBIDDEN))
       ELSE IF errors(r.data, r.partial) # {}
       THEN Reply(w, Response(errors(r.data, r.partial), HTTP_400_BAD_REQUEST))
       ELSE Goto(w, "perform_update")
    /\ UNCHANGED <<storeVars, objects>>

\* super().update(instance, validated_data): setattr for every key left in
\* validated_data; save() leaves a short_code that is set alone
set_attrs(instance, value) ==
    [instance EXCEPT !.name = Pop(value, "name", @),
                     !.image = IF "image" \in DOMAIN value THEN upload_to(value.image) ELSE @,
                     !.text = Pop(value, "text", @),
                     !.cooking_time = Pop(value, "cooking_time", @)]

\* update(instance, validated_data) inside @transaction.atomic: pop the two lists,
\* clear the lines and the tags, create_tags_ingredients, then super().update
perform_update(w) ==
    /\ pc[w] = "perform_update"
    /\ LET value == to_internal_value(req[w].data)
           instance == CHOOSE x \in req[w].instance : TRUE
           ingredients_data == Pop(value, "ingredient_in_recipe", <<>>)
           tags_data == Pop(value, "tags", <<>>)
       IN Commit(w, save_instance(
                        create_tags_ingredients(
                            tags_clear(ingredients_clear(Begin, instance.id), instance.id),
                            instance.id, tags_data, ingredients_data),
                        set_attrs(instance, value)),
                 instance.id, HTTP_200_OK)

(***************************************************************************)
(* RecipeViewSet destroy: get_permissions gives IsAuthorOrReadOnly,        *)
(* get_object() loads the recipe, perform_destroy deletes it.  The rows    *)
(* that point at a recipe have on_delete=CASCADE and go with it.           *)
(***************************************************************************)
\* the edges after a delete that leaves the rows pointing at the recipe alone
cascade_edges_none(pk) == objects

\* FavoriteCartModel.recipe = ForeignKey(Recipe, on_delete=models.CASCADE)
cascade_edges(pk) ==
    [m \in DOMAIN objects |->
        IF m = "Follow" THEN objects[m]
        ELSE FilterBag(objects[m], LAMBDA row : row[2] # pk)]

destroy(w, r) ==
    /\ pc[w] = "idle"
    /\ req' = [req EXCEPT ![w] = [action |-> "destroy", user |-> r.user, pk |-> r.pk]]
    /\ IF r.user = AnonymousUser
       THEN Reply(w, Response({"detail"}, HTTP_401_UNAUTHORIZED))
       ELSE IF ~ RecipeExists(r.pk)
       THEN Reply(w, Response({"detail"}, HTTP_404_NOT_FOUND))
       ELSE IF ~ is_author(r.user, CHOOSE x \in recipe : x.id = r.pk)
       THEN Reply(w, Response({"detail"}, HTTP_403_FORBIDDEN))
       ELSE Goto(w, "perform_destroy")
    /\ UNCHANGED <<storeVars, objects>>

\* instance.delete(): the row of the key and the rows that cascade, in one
\* transaction; the response is 204 also when another request deleted it first
perform_destroy(w) ==
    /\ pc[w] = "perform_destroy"
    /\ recipe' = {x \in recipe : x.id # req[w].pk}
    /\ recipe_tags' = FilterBag(recipe_tags, LAMBDA row : row[1] # req[w].pk)
    /\ ingredient_in_recipe' = FilterBag(ingredient_in_recipe, LAMBDA l : l.recipe # req[w].pk)
    /\ objects' = cascade_edges(req[w].pk)
    /\ Reply(w, Response({}, HTTP_204_NO_CONTENT))
    /\ UNCHANGED <<tag, ingredient, recipe_id_seq, req>>

DestroyRequests(users) == {[user |-> u, pk |-> pk] : u \in users, pk \in RecipePks}

(***************************************************************************)
(* ShortLinkViewSet: the redirect of a short link.  The permission class   *)
(* is IsAuthenticatedOrReadOnly and the request a GET, so every caller is  *)
(* served.                                                                 *)
(***************************************************************************)
\* the codes a short link can name: those the generator draws, and one more
ShortCodes == {Join(idx) : idx \in [1..MAX_CODE_LENGTH -> RandomIndex]} \cup {<<"b">>}

\* the lookup when it does not filter by the code
get_by_short_code_any(short_code) == recipe

\* the rows get_object_or_404(Recipe, short_code=short_code) looks among
get_by_short_code(short_code) == {x \in recipe : x.short_code = short_code}

\* HttpResponseRedirect(request.build_absolute_uri(f'/recipes/{recipe.id}'))
HttpResponseRedirect(id) ==
    [status |-> 302, data |-> {"redirect"}, url |-> <<"/recipes/", id>>]

redirect_short_link(w) ==
    /\ pc[w] = "idle"
    /\ \E user \in User \cup {AnonymousUser}, short_code \in ShortCodes :
        /\ req' = [req EXCEPT ![w] = [action |-> "redirect_short_link", user |-> user,
                                      short_code |-> short_code]]
        /\ LET found == get_by_short_code(short_code)
           IN IF found = {}
              THEN Reply(w, Response({"detail"}, HTTP_404_NOT_FOUND))
              ELSE IF Cardinality(found) > 1
              THEN Reply(w, Response({"MultipleObjectsReturned"}, HTTP_500_INTERNAL_SERVER_ERROR))
              ELSE Reply(w, HttpResponseRedirect((CHOOSE x \in found : TRUE).id))
    /\ UNCHANGED <<storeVars, objects>>

(***************************************************************************)
(* RecipeViewSet.download_shopping_cart.                                   *)
(***************************************************************************)
\* the first line of the file ("Список покупок\n")
ShoppingListHeader == "Spisok pokupok\n"

\* cart_lines when the filter does not name the user: the carts of all users
cart_lines_all(user) ==
    [l \in {x \in DOMAIN ingredient_in_recipe :
                \E row \in DOMAIN objects.ShoppingCart : row[2] = x.recipe} |->
        ingredient_in_recipe[l] * Cardinality({row \in DOMAIN objects.ShoppingCart :
                                                  row[2] = l.recipe})]

\* IngredientInRecipe.objects.filter(recipe__shopping_cart__user=request.user):
\* the join of the lines with the cart rows of the user, a line once per cart row
cart_lines(user) ==
    [l \in {x \in DOMAIN ingredient_in_recipe :
                BagIn(<<user, x.recipe>>, objects.ShoppingCart)} |->
        ingredient_in_recipe[l] * CopiesIn(<<user, l.recipe>>, objects.ShoppingCart)]

\* .values("ingredient__name", "ingredient__measurement_unit"): the columns of a
\* row, which become the GROUP BY of the annotate
group_key(l) == <<Ingredient[l.ingredient].name, Ingredient[l.ingredient].measurement_unit>>

\* Sum("amount") over the joined lines in S
RECURSIVE SumAmount(_, _)
SumAmount(S, lines) ==
    IF S = {} THEN 0
    ELSE LET l == CHOOSE x \in S : TRUE
         IN l.amount * lines[l] + SumAmount(S \ {l}, lines)

\* .annotate(total=Sum("amount")): one row per group
annotate(lines) ==
    {[ingredient__name |-> g[1], ingredient__measurement_unit |-> g[2],
      total |-> SumAmount({l \in DOMAIN lines : group_key(l) = g}, lines)] :
        g \in {group_key(l) : l \in DOMAIN lines}}

\* .order_by("ingredient__name"): the rows in an order that ascends by name; rows
\* of one name come in any order
order_by_name(rows) ==
    {q \in [1..Cardinality(rows) -> rows] :
        /\ \A i, j \in DOMAIN q : i # j => q[i] # q[j]
        /\ \A i, j \in DOMAIN q :
              i < j => NameRank(q[i].ingredient__name) <= NameRank(q[j].ingredient__name)}

\* f'{ingredient["ingredient__name"]} - {ingredient["total"]} ({unit})\n'
shopping_list_line(row) ==
    <<row.ingredient__name, " - ", row.total, " (", row.ingredient__measurement_unit, ")\n">>

download_shopping_cart(w) ==
    /\ pc[w] = "idle"
    /\ \E user \in User \cup {AnonymousUser} :
        /\ req' = [req EXCEPT ![w] = [action |-> "download_shopping_cart", user |-> user]]
        /\ IF user = AnonymousUser
           THEN Reply(w, Response({"detail"}, HTTP_401_UNAUTHORIZED))
           ELSE \E ingredients \in order_by_name(annotate(cart_lines(user))) :
                  Reply(w, [status |-> HTTP_200_OK, data |-> {"text/plain"},
                            shopping_list |->
                                <<ShoppingListHeader>>
                                \o [i \in DOMAIN ingredients |->
                                        shopping_list_line(ingredients[i])]])
    /\ UNCHANGED <<storeVars, objects>>

(***************************************************************************)
(* RecipeViewSet retrieve: get_permissions gives AllowAny; the recipe is   *)
(* written out by RecipeReadSerializer.                                    *)
(***************************************************************************)
retrieve(w, r) ==
    /\ pc[w] = "idle"
    /\ req' = [req EXCEPT ![w] = [action |-> "retrieve", user |-> r.user, pk |-> r.pk]]
    /\ IF ~ RecipeExists(r.pk)
       THEN Reply(w, Response({"detail"}, HTTP_404_NOT_FOUND))
       ELSE \E data \in RecipeReadSerializer(r.user, CHOOSE x \in recipe : x.id = r.pk, Db) :
               Reply(w, [status |-> HTTP_200_OK, data |-> {"recipe"}, recipe |-> data])
    /\ UNCHANGED <<storeVars, objects>>

RetrieveRequests(users) == {[user |-> u, pk |-> pk] : u \in users, pk \in RecipePks}

(***************************************************************************)
(* The admin site: TagAdmin and IngredientAdmin delete reference rows, and *)
(* the rows that point at them go with them (on_delete=CASCADE).           *)
(***************************************************************************)
delete_tag(t) ==
    /\ t \in tag
    /\ tag' = tag \ {t}
    /\ recipe_tags' = FilterBag(recipe_tags, LAMBDA row : row[2] # t)
    /\ UNCHANGED <<ingredient, recipe, ingredient_in_recipe, recipe_id_seq, objects, pc, req, resp>>

delete_ingredient(i) ==
    /\ i \in ingredient
    /\ ingredient' = ingredient \ {i}
    /\ ingredient_in_recipe' = FilterBag(ingredient_in_recipe, LAMBDA l : l.ingredient # i)
    /\ UNCHANGED <<tag, recipe, recipe_tags, recipe_id_seq, objects, pc, req, resp>>

(***************************************************************************)
(* The edge handlers over a store that holds one recipe.                   *)
(***************************************************************************)
InitWorkers ==
    /\ pc = [w \in Procs |-> "idle"]
    /\ req = [w \in Procs |-> NoRequest]
    /\ resp = [w \in Procs |-> NoResponse]

InitEdges == objects = [Favorite |-> EmptyBag, ShoppingCart |-> EmptyBag, Follow |-> EmptyBag]

Init ==
    /\ tag = {1, 2}
    /\ ingredient = {1, 2}
    /\ recipe = {[id |-> 1, author |-> "u1", name |-> "a", cooking_time |-> 1,
                  image |-> <<"recipes/", "uuid", ".png">>, text |-> "t", short_code |-> <<"a">>]}
    /\ recipe_id_seq = 1
    /\ recipe_tags = SetToBag({<<1, 1>>})
    /\ ingredient_in_recipe = SetToBag({[recipe |-> 1, ingredient |-> 1, amount |-> 1]})
    /\ InitEdges
    /\ InitWorkers

Next ==
    \E w \in Procs :
        \/ favorite(w)
        \/ shopping_cart(w)
        \/ add_recipe_exists(w)
        \/ add_recipe_get(w)
        \/ add_recipe_create(w)
        \/ delete_recipe_get(w)
        \/ delete_recipe_delete(w)
        \/ edit_subscriptions(w)
        \/ subscribe_user_get(w)
        \/ subscribe_user_create(w)
        \/ subscribe_user_retry(w)
        \/ unsubscribe_user_exists(w)
        \/ unsubscribe_user_delete(w)
        \/ Finish(w)

Spec == Init /\ [][Next]_vars

(***************************************************************************)
(* The recipe writer: one worker serves the create and update requests of  *)
(* the user u1 on a store that starts without recipes.                     *)
(***************************************************************************)
\* a field that is left out (<<>>) or supplied with a value of S (<<value>>)
Opt(S) == {<<>>} \cup {<<x>> : x \in S}

\* the request dict of the supplied fields; the image is always supplied
Data(name, cooking_time, tags, ingredients) ==
    [k \in {f \in Fields : CASE f = "name" -> name # <<>>
                             [] f = "cooking_time" -> cooking_time # <<>>
                             [] f = "tags" -> tags # <<>>
                             [] f = "image" -> TRUE
                             [] f = "text" -> TRUE
                             [] OTHER -> ingredients # <<>>} |->
        CASE k = "name" -> name[1]
          [] k = "cooking_time" -> cooking_time[1]
          [] k = "tags" -> tags[1]
          [] k = "image" -> ImageData
          [] k = "text" -> TextData
          [] OTHER -> ingredients[1]]

Item(id, amount) == [id |-> id, amount |-> amount]

\* the tag lists and ingredient lists requests carry: empty, one entry, two
\* entries, the same entry twice
TagLists == {<<>>, <<1>>, <<2>>, <<1, 2>>, <<1, 1>>}
IngredientLists == {<<>>, <<Item(1, 1)>>, <<Item(1, 2)>>, <<Item(2, 1)>>,
                    <<Item(1, 1), Item(2, 1)>>, <<Item(1, 1), Item(1, 2)>>}

\* the request dicts over the given choices of each field
Payloads(names, cooking_times, tag_lists, ingredient_lists) ==
    {Data(n, c, t, i) : n \in names, c \in cooking_times,
                        t \in tag_lists, i \in ingredient_lists}

CreateRequests(users, payloads) == {[user |-> u, data |-> d] : u \in users, d \in payloads}

UpdateRequests(users, partials, payloads) ==
    {[user |-> u, pk |-> pk, partial |-> p, data |-> d] :
        u \in users, pk \in RecipePks, p \in partials, d \in payloads}

\* requests of u1 that supply or leave out the name, the tags and the ingredients
RecipePayloads == Payloads(Opt({"a"}), {<<1>>}, Opt(TagLists), Opt(IngredientLists))

InitStore ==
    /\ tag = {1, 2}
    /\ ingredient = {1, 2}
    /\ recipe = {}
    /\ recipe_id_seq = 0
    /\ recipe_tags = EmptyBag
    /\ ingredient_in_recipe = EmptyBag

InitRecipe == InitStore /\ InitEdges /\ InitWorkers

NextRecipe ==
    \E w \in {"w1"} :
        \/ \E r \in CreateRequests({"u1"}, RecipePayloads) : create(w, r)
        \/ generate_short_code(w)
        \/ save(w)
        \/ \E r \in UpdateRequests({"u1"}, BOOLEAN, RecipePayloads) : update(w, r)
        \/ perform_update(w)
        \/ Finish(w)

SpecRecipe == InitRecipe /\ [][NextRecipe]_vars

(***************************************************************************)
(* Updates by value: one worker, requests that always carry a valid tag    *)
(* list and a valid ingredient list and supply or leave out the scalars.   *)
(***************************************************************************)
ValuePayloads ==
    Payloads(Opt({"a", "b"}), Opt({1}), {<<t>> : t \in {<<1>>, <<2>>, <<1, 2>>}},
             {<<i>> : i \in {<<Item(1, 1)>>, <<Item(1, 2)>>, <<Item(2, 1)>>,
                             <<Item(1, 1), Item(2, 1)>>}})

NextUpdate ==
    \E w \in {"w1"} :
        \/ \E r \in CreateRequests({"u1"}, ValuePayloads) : create(w, r)
        \/ generate_short_code(w)
        \/ save(w)
        \/ \E r \in UpdateRequests({"u1"}, {TRUE}, ValuePayloads) : update(w, r)
        \/ perform_update(w)
        \/ Finish(w)

SpecUpdate == InitRecipe /\ [][NextUpdate]_vars

(***************************************************************************)
(* The writer beside the admin site: tags and ingredients can be deleted   *)
(* between the validation of a request and its write.                      *)
(***************************************************************************)
AdminPayloads ==
    Payloads({<<"a">>}, {<<1>>}, {<<t>> : t \in {<<1>>, <<1, 2>>}},
             {<<i>> : i \in {<<Item(1, 1)>>, <<Item(1, 1), Item(2, 1)>>}})

NextAdmin ==
    \/ \E w \in {"w1"} :
        \/ \E r \in CreateRequests({"u1"}, AdminPayloads) : create(w, r)
        \/ generate_short_code(w)
        \/ save(w)
        \/ \E r \in UpdateRequests({"u1"}, {FALSE}, AdminPayloads) : update(w, r)
        \/ perform_update(w)
        \/ Finish(w)
    \/ \E t \in tag : delete_tag(t)
    \/ \E i \in ingredient : delete_ingredient(i)

SpecAdmin == InitRecipe /\ [][NextAdmin]_vars

(***************************************************************************)
(* Two workers create recipes at the same time.                            *)
(***************************************************************************)
RacePayloads == Payloads({<<"a">>}, {<<1>>}, {<<(<<1>>)>>}, {<<(<<Item(1, 1)>>)>>})

NextRace ==
    \E w \in Procs :
        \/ \E r \in CreateRequests(User, RacePayloads) : create(w, r)
        \/ generate_short_code(w)
        \/ save(w)
        \/ Finish(w)

SpecRace == InitRecipe /\ [][NextRace]_vars

(***************************************************************************)
(* Saves of one recipe by two workers: creations, and updates that may     *)
(* overlap, each writing the instance it loaded.                           *)
(***************************************************************************)
SavePayloads == Payloads(Opt({"a", "b"}), {<<1>>}, {<<(<<1>>)>>}, {<<(<<Item(1, 1)>>)>>})

NextSave ==
    \E w \in Procs :
        \/ \E r \in CreateRequests({"u1"}, SavePayloads) : create(w, r)
        \/ generate_short_code(w)
        \/ save(w)
        \/ \E r \in UpdateRequests({"u1"}, {TRUE}, SavePayloads) : update(w, r)
        \/ perform_update(w)
        \/ Finish(w)

SpecSave == InitRecipe /\ [][NextSave]_vars

(***************************************************************************)
(* Creations under fair scheduling: a request that has started runs on     *)
(* (every step of a handler that can be taken is taken), and               *)
(* random.choices, drawing again and again while some code is free, draws  *)
(* a free code in the end.                                                 *)
(***************************************************************************)
FairDraws ==
    \A w \in Procs :
        /\ WF_vars(generate_short_code(w))
        /\ SF_vars(generate_short_code(w) /\ pc'[w] = "save")
        /\ WF_vars(save(w))

SpecExhaust == InitRecipe /\ [][NextRace]_vars /\ FairDraws

(***************************************************************************)
(* Short links resolved while recipes are created.                         *)
(***************************************************************************)
NextLink ==
    \E w \in Procs :
        \/ \E r \in CreateRequests({"u1"}, RacePayloads) : create(w, r)
        \/ generate_short_code(w)
        \/ save(w)
        \/ redirect_short_link(w)
        \/ Finish(w)

SpecLink == InitRecipe /\ [][NextLink]_vars

(***************************************************************************)
(* Shopping lists: u1 writes recipes over a catalogue of three             *)
(* ingredients, u1 and u2 fill and empty their carts, u1 marks favorites,  *)
(* and every caller downloads.                                             *)
(***************************************************************************)
CartPayloads ==
    Payloads({<<"a">>}, {<<1>>}, {<<(<<1>>)>>},
             {<<i>> : i \in {<<Item(2, 2)>>, <<Item(2, 1), Item(1, 1)>>,
                             <<Item(1, 2), Item(3, 1)>>}})

InitCart ==
    /\ tag = {1, 2}
    /\ ingredient = DOMAIN Ingredient
    /\ recipe = {}
    /\ recipe_id_seq = 0
    /\ recipe_tags = EmptyBag
    /\ ingredient_in_recipe = EmptyBag
    /\ InitEdges
    /\ InitWorkers

NextCart ==
    \E w \in {"w1"} :
        \/ \E r \in CreateRequests({"u1"}, CartPayloads) : create(w, r)
        \/ generate_short_code(w)
        \/ save(w)
        \/ shopping_cart(w) /\ req'[w].user \in User
        \/ favorite(w) /\ req'[w].user = "u1" /\ req'[w].method = "POST"
        \/ add_recipe_exists(w)
        \/ add_recipe_get(w)
        \/ add_recipe_create(w)
        \/ delete_recipe_get(w)
        \/ delete_recipe_delete(w)
        \/ download_shopping_cart(w)
        \/ Finish(w)

SpecCart == InitCart /\ [][NextCart]_vars

(***************************************************************************)
(* Recipes deleted while they are created and put into favorites and       *)
(* carts by two workers.                                                   *)
(***************************************************************************)
DeletePayloads ==
    Payloads({<<"a">>}, {<<1>>}, {<<(<<1>>)>>}, {<<(<<Item(1, 1), Item(2, 1)>>)>>})

NextDelete ==
    \E w \in Procs :
        \/ \E r \in CreateRequests({"u1"}, DeletePayloads) : create(w, r)
        \/ generate_short_code(w)
        \/ save(w)
        \/ favorite(w) /\ req'[w].user = "u1" /\ req'[w].method = "POST"
        \/ shopping_cart(w) /\ req'[w].user = "u2" /\ req'[w].method = "POST"
        \/ add_recipe_exists(w)
        \/ add_recipe_get(w)
        \/ add_recipe_create(w)
        \/ \E r \in DestroyRequests({"u1"}) : destroy(w, r)
        \/ perform_destroy(w)
        \/ Finish(w)

SpecDelete == InitRecipe /\ [][NextDelete]_vars

(***************************************************************************)
(* Authors and other callers: u1 and u2 create recipes; u1, u2 and an      *)
(* anonymous caller update, delete and read them, on two workers.          *)
(***************************************************************************)
AuthorPayloads == Payloads({<<"a">>}, {<<1>>}, {<<(<<1>>)>>}, {<<(<<Item(1, 1)>>)>>})
RenamePayloads == Payloads({<<"b">>}, {<<>>}, {<<(<<2>>)>>}, {<<(<<Item(2, 1)>>)>>})

NextAuthor ==
    \E w \in Procs :
        \/ \E r \in CreateRequests(User, AuthorPayloads) : create(w, r)
        \/ generate_short_code(w)
        \/ save(w)
        \/ \E r \in UpdateRequests(User \cup {AnonymousUser}, {TRUE}, RenamePayloads) :
              update(w, r)
        \/ perform_update(w)
        \/ \E r \in DestroyRequests(User \cup {AnonymousUser}) : destroy(w, r)
        \/ perform_destroy(w)
        \/ \E r \in RetrieveRequests(User \cup {AnonymousUser}) : retrieve(w, r)
        \/ Finish(w)

SpecAuthor == InitRecipe /\ [][NextAuthor]_vars

(***************************************************************************)
(* Recipes read back: u1 creates recipes from valid payloads that differ   *)
(* in every field and in the order of their lists, and other callers read  *)
(* them, on two workers.                                                   *)
(***************************************************************************)
ReadPayloads ==
    Payloads({<<"a">>}, {<<1>>}, {<<(<<1>>)>>}, {<<(<<Item(1, 1)>>)>>})
    \cup Payloads({<<"b">>}, {<<2>>}, {<<(<<1, 2>>)>>, <<(<<2, 1>>)>>},
                  {<<(<<Item(1, 2), Item(2, 1)>>)>>, <<(<<Item(2, 1), Item(1, 2)>>)>>})

NextRead ==
    \E w \in Procs :
        \/ \E r \in CreateRequests({"u1"}, ReadPayloads) : create(w, r)
        \/ generate_short_code(w)
        \/ save(w)
        \/ \E r \in RetrieveRequests({"u2", AnonymousUser}) : retrieve(w, r)
        \/ Finish(w)

SpecRead == InitRecipe /\ [][NextRead]_vars

(***************************************************************************)
(* Properties of the relation-edge handlers.                               *)
(***************************************************************************)
\* the relation a request works on, and the edge row it names
EdgeModel(r) == IF r.action = "subscribe" THEN "Follow" ELSE ModelOf(r.action)
EdgeRow(r) == <<r.user, r.pk>>
Copies(w) == CopiesIn(EdgeRow(req[w]), objects[EdgeModel(req[w])])
Stepped(w) == pc'[w] # pc[w]
AtMostOnce == \A m \in DOMAIN objects : \A row \in DOMAIN objects[m] : objects[m][row] <= 1

\* C1: an add (favorite, shopping cart or subscribe) whose existence check finds the
\* pair already in the relation answers 400 and changes no relation; no relation
\* ever holds a pair more than once.
C1_DuplicateAddRejected ==
    [][/\ \A w \in Procs :
            (pc[w] \in {"add_exists", "subscribe_get"} /\ Stepped(w) /\ Copies(w) >= 1)
                => /\ pc'[w] = "done"
                   /\ resp'[w].status = HTTP_400_BAD_REQUEST
                   /\ objects' = objects
       /\ AtMostOnce']_vars

\* C1 witness: a second add of a favorite was answered 400 and the edge is there once
C1_Witness ==
    \E w \in Procs :
        /\ pc[w] = "done" /\ req[w].action = "favorite" /\ req[w].method = "POST"
        /\ resp[w].status = HTTP_400_BAD_REQUEST
        /\ Copies(w) = 1

C3_NoSelfFollow ==
    /\ \A row \in DOMAIN objects.Follow : row[1] # row[2]
    /\ \A w \in Procs :
          (req[w].action = "subscribe" /\ req[w].method = "POST" /\ req[w].user = req[w].pk)
              => pc[w] = "done" /\ resp[w].status = HTTP_400_BAD_REQUEST

\* C3 witness: a self-subscribe was answered 400 in a store that holds follow edges
C3_Witness ==
    /\ objects.Follow # EmptyBag
    /\ \E w \in Procs :
          /\ req[w].action = "subscribe" /\ req[w].method = "POST" /\ req[w].user = req[w].pk
          /\ resp[w].status = HTTP_400_BAD_REQUEST

\* C4: after the insert step of an add, whether the store accepted or rejected the
\* row, the relation holds the pair exactly once; an insert of a pair that is
\* already there (the other request got in first) changes nothing, and add_recipe
\* then ends with the store's IntegrityError.
C4_ConcurrentAddOneEdge ==
    [][\A w \in Procs :
          (pc[w] \in {"add_create", "subscribe_create"} /\ Stepped(w))
              => /\ CopiesIn(EdgeRow(req[w]), objects'[EdgeModel(req[w])]) = 1
                 /\ Copies(w) >= 1 =>
                      /\ objects' = objects
                      /\ pc[w] = "add_create" =>
                            resp'[w].status = HTTP_500_INTERNAL_SERVER_ERROR]_vars

\* C4 witness: two workers served the same favorite add, both passed the existence
\* check, one insert was accepted and the other rejected, and the edge is there once
C4_Witness ==
    \E w, v \in Procs :
        /\ w # v /\ pc[w] = "done" /\ pc[v] = "done"
        /\ req[w].action = "favorite" /\ req[w] = req[v]
        /\ resp[w].status = HTTP_201_CREATED
        /\ resp[v].status = HTTP_500_INTERNAL_SERVER_ERROR
        /\ Copies(w) = 1

(***************************************************************************)
(* Properties of the recipe writer.                                        *)
(***************************************************************************)
\* the request of w supplies no list for the field, or an empty one
EmptyList(data, field) == field \in DOMAIN data /\ data[field] = <<>>
NoneGiven(data, field) == field \notin DOMAIN data \/ data[field] = <<>>
\* the tag list names a tag twice; the ingredient list names an ingredient twice
TagTwice(data) ==
    /\ "tags" \in DOMAIN data
    /\ \E i, j \in 1..Len(data.tags) : i < j /\ data.tags[i] = data.tags[j]
IngredientTwice(data) ==
    /\ "ingredients" \in DOMAIN data
    /\ \E i, j \in 1..Len(data.ingredients) :
          i < j /\ data.ingredients[i].id = data.ingredients[j].id
\* the request r is a create of a user, or an update of a stored recipe by its author
Admitted(r) ==
    \/ r.action = "create" /\ r.user \in User
    \/ r.action = "update" /\ \E x \in recipe : x.id = r.pk /\ x.author = r.user
\* the request r was refused by validation and wrote nothing
Refused(w) ==
    /\ pc'[w] = "done"
    /\ resp'[w].status = HTTP_400_BAD_REQUEST
    /\ UNCHANGED storeVars
TagsOf(rows, id) == {row \in DOMAIN rows : row[1] = id}
LinesOf(lines, id) == {line \in DOMAIN lines : line.recipe = id}

\* C5: a create whose tag list or ingredient list is empty (or is not given) is
\* answered 400 at once, and the recipe rows, the tag associations and the
\* ingredient lines are the same after it as before.
C5_EmptyCreateRejected ==
    [][\A w \in Procs :
          (/\ pc[w] = "idle" /\ req'[w].action = "create" /\ req'[w].user \in User
           /\ \/ NoneGiven(req'[w].data, "tags")
              \/ NoneGiven(req'[w].data, "ingredients"))
              => Refused(w)]_vars

\* C5 witness: a create with an empty ingredient list was answered 400 with the
\* message of validate, and no recipe row exists
C5_Witness ==
    \E w \in Procs :
        /\ pc[w] = "done" /\ req[w].action = "create"
        /\ EmptyList(req[w].data, "ingredients")
        /\ resp[w] = [status |-> HTTP_400_BAD_REQUEST, data |-> {"need ingredient"}]
        /\ recipe = {}

\* C6: a create or an update whose tag list names a tag twice or whose ingredient
\* list names an ingredient twice is answered 400 and writes nothing; no recipe
\* ever has two lines of one ingredient or two associations of one tag.
C6_DuplicatesRejected ==
    [][/\ \A w \in Procs :
            (/\ pc[w] = "idle" /\ Admitted(req'[w])
             /\ TagTwice(req'[w].data) \/ IngredientTwice(req'[w].data))
                => Refused(w)
       /\ \A row \in DOMAIN recipe_tags' : recipe_tags'[row] = 1
       /\ \A l1 \in DOMAIN ingredient_in_recipe' :
            /\ ingredient_in_recipe'[l1] = 1
            /\ \A l2 \in DOMAIN ingredient_in_recipe' :
                  (l1.recipe = l2.recipe /\ l1.ingredient = l2.ingredient) => l1 = l2]_vars

\* C6 witness: an update of a stored recipe that names an ingredient twice was
\* answered 400 with the message of validate_ingredients
C6_Witness ==
    \E w \in Procs :
        /\ pc[w] = "done" /\ Admitted(req[w]) /\ req[w].action = "update"
        /\ IngredientTwice(req[w].data)
        /\ resp[w].status = HTTP_400_BAD_REQUEST
        /\ "ingredients: unique" \in resp[w].data

\* C7: every stored recipe has a tag association and an ingredient line; an update
\* of a stored recipe by its author that gives no tags or no ingredients (an
\* empty list, or none) is answered 400 and writes nothing.
C7_RecipeKeepsTagsAndLines ==
    [][/\ \A w \in Procs :
            (/\ pc[w] = "idle" /\ req'[w].action = "update" /\ Admitted(req'[w])
             /\ \/ NoneGiven(req'[w].data, "tags")
                \/ NoneGiven(req'[w].data, "ingredients"))
                => Refused(w)
       /\ \A r \in recipe' :
            /\ TagsOf(recipe_tags', r.id) # {}
            /\ LinesOf(ingredient_in_recipe', r.id) # {}]_vars

\* C7 witness: a partial update with an empty tag list was answered 400 and the
\* recipe it names has its tag and its line
C7_Witness ==
    \E w \in Procs :
        /\ pc[w] = "done" /\ req[w].action = "update" /\ Admitted(req[w])
        /\ req[w].partial /\ EmptyList(req[w].data, "tags")
        /\ ~ NoneGiven(req[w].data, "ingredients")
        /\ resp[w] = [status |-> HTTP_400_BAD_REQUEST, data |-> {"need tag"}]
        /\ TagsOf(recipe_tags, req[w].pk) # {}
        /\ LinesOf(ingredient_in_recipe, req[w].pk) # {}

\* C8: a write of create or update that fails inside the transaction (the store
\* refuses a row after the recipe row was inserted, or after the old tags and
\* lines were cleared) leaves the recipe rows, the tag associations and the
\* ingredient lines as they were before it; no tag association and no ingredient
\* line is ever without its recipe.
C8_WriteAllOrNothing ==
    [][/\ \A w \in Procs :
            (/\ pc[w] \in {"save", "perform_update"} /\ Stepped(w)
             /\ resp'[w].status # IF pc[w] = "save" THEN HTTP_201_CREATED ELSE HTTP_200_OK)
                => /\ resp'[w].status = HTTP_500_INTERNAL_SERVER_ERROR
                   /\ UNCHANGED storeVars
       /\ \A row \in DOMAIN recipe_tags' : \E r \in recipe' : r.id = row[1]
       /\ \A line \in DOMAIN ingredient_in_recipe' : \E r \in recipe' : r.id = line.recipe]_vars

\* C8 witness: an update failed at the bulk insert of the lines, after the old
\* lines and tags were cleared and the new tags set, and the recipe has its lines
\* and tags
C8_Witness ==
    \E w \in Procs :
        /\ pc[w] = "done" /\ req[w].action = "update"
        /\ resp[w] = [status |-> HTTP_500_INTERNAL_SERVER_ERROR,
                      data |-> {"IntegrityError: ingredient"}]
        /\ TagsOf(recipe_tags, req[w].pk) # {}
        /\ LinesOf(ingredient_in_recipe, req[w].pk) # {}

\* C9: a successful update leaves the recipe with exactly the tags and exactly the
\* lines of the request, each once; name and cooking_time are those of the request
\* where it gives them and the old ones where it does not; id, author and
\* short_code are the old ones; the rows, tags and lines of every other recipe,
\* and the other tables, are unchanged.
C9_UpdateReplaces ==
    [][\A w \in Procs :
          (pc[w] = "perform_update" /\ Stepped(w) /\ resp'[w].status = HTTP_200_OK)
              => LET d == req[w].data
                     pk == req[w].pk
                     old == {x \in recipe : x.id = pk}
                     new == {x \in recipe' : x.id = pk}
                 IN /\ Cardinality(old) = 1 /\ Cardinality(new) = 1
                    /\ \A o \in old : \A n \in new :
                          /\ n.author = o.author /\ n.short_code = o.short_code
                          /\ n.name = IF "name" \in DOMAIN d THEN d.name ELSE o.name
                          /\ n.cooking_time = IF "cooking_time" \in DOMAIN d
                                              THEN d.cooking_time ELSE o.cooking_time
                    /\ TagsOf(recipe_tags', pk) = {<<pk, d.tags[i]>> : i \in 1..Len(d.tags)}
                    /\ \A row \in TagsOf(recipe_tags', pk) : recipe_tags'[row] = 1
                    /\ LinesOf(ingredient_in_recipe', pk) =
                          {[recipe |-> pk, ingredient |-> d.ingredients[i].id,
                            amount |-> d.ingredients[i].amount] : i \in 1..Len(d.ingredients)}
                    /\ \A line \in LinesOf(ingredient_in_recipe', pk) :
                          ingredient_in_recipe'[line] = 1
                    /\ {x \in recipe' : x.id # pk} = {x \in recipe : x.id # pk}
                    /\ \A x \in recipe : x.id # pk =>
                          /\ TagsOf(recipe_tags', x.id) = TagsOf(recipe_tags, x.id)
                          /\ LinesOf(ingredient_in_recipe', x.id) =
                                LinesOf(ingredient_in_recipe, x.id)
                    /\ UNCHANGED <<tag, ingredient, objects>>]_vars

\* C9 witness: a partial update that gave no name succeeded on a recipe named "b"
\* while another recipe is stored, and the recipe has one line, of ingredient 2
C9_Witness ==
    \E w \in Procs :
        /\ pc[w] = "done" /\ req[w].action = "update"
        /\ resp[w].status = HTTP_200_OK
        /\ "name" \notin DOMAIN req[w].data
        /\ \E x \in recipe : x.id = req[w].pk /\ x.name = "b"
        /\ Cardinality(recipe) = 2
        /\ LinesOf(ingredient_in_recipe, req[w].pk) =
              {[recipe |-> req[w].pk, ingredient |-> 2, amount |-> 1]}

\* C10: no two stored recipes have the same short_code, and every stored
\* short_code has MAX_CODE_LENGTH characters, at least one, each a lowercase
\* letter or a digit.
C10_ShortCodeUnique ==
    /\ \A x, y \in recipe : x.short_code = y.short_code => x = y
    /\ Cardinality({x.short_code : x \in recipe}) = Cardinality({x.id : x \in recipe})
    /\ \A x \in recipe :
          /\ Len(x.short_code) = MAX_CODE_LENGTH /\ Len(x.short_code) > 0
          /\ \A i \in 1..Len(x.short_code) :
                x.short_code[i] \in ToSet(ascii_lowercase) \cup ToSet(digits)

\* C10 witness: of two creations that drew the same code before either saved, one
\* was stored and the store refused the other; the next creation drew the code in
\* use and has to draw again
C10_Witness ==
    \E w, v \in Procs :
        /\ pc[w] = "done"
        /\ resp[w] = [status |-> HTTP_500_INTERNAL_SERVER_ERROR,
                      data |-> {"IntegrityError: short_code"}]
        /\ pc[v] = "generate_short_code" /\ req[v].short_code # <<>>
        /\ \E x \in recipe : x.short_code = req[v].short_code

\* C11: a recipe row gets its short_code in the step that inserts it, the code
\* drawn by generate_short_code for that save, not blank; no later step (an update,
\* overlapping another or not, or any other save) changes the code of a stored recipe.
C11_ShortCodeNeverChanges ==
    [][/\ \A x \in recipe : \A y \in recipe' :
            x.id = y.id => y.short_code = x.short_code
       /\ \A y \in recipe' :
            (~ \E x \in recipe : x.id = y.id)
                => \E w \in Procs : /\ pc[w] = "save" /\ pc'[w] = "done"
                                    /\ y.short_code = req[w].short_code
                                    /\ y.short_code # <<>>]_vars

\* C11 witness: two updates of one recipe both succeeded, the recipe was renamed
\* "b", and another recipe with another code is stored
C11_Witness ==
    \E w, v \in Procs :
        /\ w # v /\ pc[w] = "done" /\ pc[v] = "done"
        /\ req[w].action = "update" /\ req[v].action = "update" /\ req[w].pk = req[v].pk
        /\ resp[w].status = HTTP_200_OK /\ resp[v].status = HTTP_200_OK
        /\ \E x, y \in recipe : /\ x.id = req[w].pk /\ x.name = "b" /\ y.id # x.id
                                /\ x.short_code # <<>> /\ y.short_code # x.short_code

\* C12 as stated: short-code generation always terminates: a request that is in
\* generate_short_code leaves it (with a free code, or by giving up), also when
\* every code is in use.
C12_GenerationTerminates ==
    \A w \in Procs : (pc[w] = "generate_short_code") ~> (pc[w] # "generate_short_code")

RECURSIVE LineTotal(_)
LineTotal(S) ==
    IF S = {} THEN 0
    ELSE LET l == CHOOSE x \in S : TRUE IN l.amount + LineTotal(S \ {l})

\* C14: the shopping list of a user is the header followed by one entry for every
\* (name, unit) pair of an ingredient with a line in a recipe of the user's cart,
\* and by nothing else; the total of an entry is the sum of the amounts of those
\* lines; the entries ascend by name; carts of other users and favorites add
\* nothing; an empty cart gives the header alone, with status 200; no table changes.
C14_ShoppingListAggregates ==
    [][\A w \in Procs :
          (/\ pc[w] = "idle" /\ req'[w].action = "download_shopping_cart"
           /\ req'[w].user \in User)
              => LET user == req'[w].user
                     lines == {l \in DOMAIN ingredient_in_recipe :
                                  CopiesIn(<<user, l.recipe>>, objects.ShoppingCart) >= 1}
                     pair(l) == <<Ingredient[l.ingredient].name,
                                  Ingredient[l.ingredient].measurement_unit>>
                     pairs == {pair(l) : l \in lines}
                     entries == Tail(resp'[w].shopping_list)
                 IN /\ resp'[w].status = HTTP_200_OK
                    /\ Head(resp'[w].shopping_list) = ShoppingListHeader
                    /\ Len(entries) = Cardinality(pairs)
                    /\ \A p \in pairs : \E k \in DOMAIN entries :
                          entries[k] = <<p[1], " - ", LineTotal({l \in lines : pair(l) = p}),
                                         " (", p[2], ")\n">>
                    /\ \A i, j \in DOMAIN entries :
                          i < j => NameRank(entries[i][1]) <= NameRank(entries[j][1])
                    /\ lines = {} => resp'[w].shopping_list = <<ShoppingListHeader>>
                    /\ UNCHANGED <<storeVars, objects>>]_vars

\* C14 witness: u2's cart holds a recipe of flour 2 g and a recipe of flour 1 g and
\* sugar 1 g, one of them is also in u1's cart and favorites, and u2's list is
\* flour 3 g, then sugar 1 g
C14_Witness ==
    \E w \in Procs :
        /\ pc[w] = "done" /\ req[w].action = "download_shopping_cart" /\ req[w].user = "u2"
        /\ resp[w].shopping_list =
              <<ShoppingListHeader, <<"flour", " - ", 3, " (", "g", ")\n">>,
                <<"sugar", " - ", 1, " (", "g", ")\n">>>>
        /\ Cardinality(DOMAIN ingredient_in_recipe) = 3
        /\ \E r \in recipe : /\ BagIn(<<"u1", r.id>>, objects.ShoppingCart)
                             /\ BagIn(<<"u1", r.id>>, objects.Favorite)
                             /\ BagIn(<<"u2", r.id>>, objects.ShoppingCart)

\* the rows of a bag that do not point at recipe pk are the same in both bags
SameButFor(before, after, points(_)) ==
    /\ DOMAIN after \subseteq DOMAIN before
    /\ \A row \in DOMAIN before : ~ points(row) => CopiesIn(row, after) = before[row]

\* C15: the delete of a recipe leaves no recipe row, ingredient line, tag
\* association, favorite edge or cart edge with its key (so no line of it is in the
\* join a shopping list is made of), and leaves every row of another recipe, the
\* follow edges, the tags and the ingredients as they were; at no time does a
\* line, a tag association, a favorite or a cart edge point at a recipe that is
\* not stored.
C15_DeleteCascades ==
    [][/\ \A w \in Procs :
            (pc[w] = "perform_destroy" /\ Stepped(w))
                => LET pk == req[w].pk
                   IN /\ resp'[w].status = HTTP_204_NO_CONTENT
                      /\ ~ \E x \in recipe' : x.id = pk
                      /\ TagsOf(recipe_tags', pk) = {}
                      /\ LinesOf(ingredient_in_recipe', pk) = {}
                      /\ \A m \in {"Favorite", "ShoppingCart"} :
                            \A row \in DOMAIN objects'[m] : row[2] # pk
                      /\ \A u \in User : \A l \in DOMAIN ingredient_in_recipe' :
                            BagIn(<<u, l.recipe>>, objects'.ShoppingCart) => l.recipe # pk
                      /\ recipe' = {x \in recipe : x.id # pk}
                      /\ SameButFor(recipe_tags, recipe_tags', LAMBDA row : row[1] = pk)
                      /\ SameButFor(ingredient_in_recipe, ingredient_in_recipe',
                                    LAMBDA l : l.recipe = pk)
                      /\ \A m \in {"Favorite", "ShoppingCart"} :
                            SameButFor(objects[m], objects'[m], LAMBDA row : row[2] = pk)
                      /\ objects'.Follow = objects.Follow
                      /\ UNCHANGED <<tag, ingredient>>
       /\ \A row \in DOMAIN recipe_tags' : \E x \in recipe' : x.id = row[1]
       /\ \A l \in DOMAIN ingredient_in_recipe' : \E x \in recipe' : x.id = l.recipe
       /\ \A m \in {"Favorite", "ShoppingCart"} :
            \A row \in DOMAIN objects'[m] : \E x \in recipe' : x.id = row[2]]_vars

\* C15 witness: recipe 1 was deleted after u2 had put it in the cart (that add was
\* answered 201 and its edge is gone), and recipe 2 is stored with its lines, its
\* tag and u1's favorite edge
C15_Witness ==
    \E w, v \in Procs :
        /\ pc[w] = "done" /\ req[w].action = "destroy" /\ req[w].pk = 1
        /\ resp[w].status = HTTP_204_NO_CONTENT
        /\ pc[v] = "done" /\ req[v].action = "shopping_cart" /\ req[v].pk = 1
        /\ resp[v].status = HTTP_201_CREATED
        /\ ~ BagIn(<<req[v].user, 1>>, objects.ShoppingCart)
        /\ ~ \E x \in recipe : x.id = 1
        /\ \E x \in recipe : x.id = 2
        /\ Cardinality(LinesOf(ingredient_in_recipe, 2)) = 2
        /\ TagsOf(recipe_tags, 2) # {}
        /\ BagIn(<<"u1", 2>>, objects.Favorite)

\* C16: an update or a delete of a stored recipe asked by a caller who is not its
\* author is refused at once (401 for a caller without a user, 403 for another
\* user) with the store as it was; a recipe row, its tags or its lines change or
\* go only in the write of a request of its author; a read of a stored recipe is
\* answered 200 to every caller; a new row has the user of the request that
\* saved it as its author, and the author of a row never changes.
C16_OnlyAuthorWrites ==
    [][/\ \A w \in Procs :
            (pc[w] = "idle" /\ pc'[w] # "idle" /\ req'[w].action \in {"update", "destroy"}) =>
                \A x \in recipe :
                    (x.id = req'[w].pk /\ req'[w].user # x.author) =>
                        /\ pc'[w] = "done"
                        /\ resp'[w].status = IF req'[w].user = AnonymousUser
                                             THEN HTTP_401_UNAUTHORIZED
                                             ELSE HTTP_403_FORBIDDEN
                        /\ UNCHANGED <<storeVars, objects>>
       /\ \A x \in recipe :
            (\/ x \notin recipe'
             \/ \E row \in DOMAIN recipe_tags \cup DOMAIN recipe_tags' :
                    row[1] = x.id /\ CopiesIn(row, recipe_tags') # CopiesIn(row, recipe_tags)
             \/ \E l \in DOMAIN ingredient_in_recipe \cup DOMAIN ingredient_in_recipe' :
                    l.recipe = x.id
                    /\ CopiesIn(l, ingredient_in_recipe') # CopiesIn(l, ingredient_in_recipe)) =>
                \E w \in Procs :
                    /\ pc[w] \in {"perform_update", "perform_destroy"}
                    /\ pc'[w] = "done"
                    /\ req[w].pk = x.id
                    /\ req[w].user = x.author
       /\ \A w \in Procs :
            (pc[w] = "idle" /\ pc'[w] # "idle" /\ req'[w].action = "retrieve"
             /\ \E x \in recipe : x.id = req'[w].pk) =>
                /\ resp'[w].status = HTTP_200_OK
                /\ resp'[w].recipe.id = req'[w].pk
       /\ \A y \in recipe' :
            (\A x \in recipe : x.id # y.id) =>
                \E w \in Procs :
                    /\ pc[w] \in {"save", "perform_update"}
                    /\ pc'[w] = "done"
                    /\ req[w].user = y.author
       /\ \A x \in recipe, y \in recipe' : x.id = y.id => y.author = x.author
    ]_vars

\* a user who is not the author was refused an update of a stored recipe, and a
\* caller without a user has read that recipe
C16_Witness ==
    \E w, v \in Procs :
        /\ pc[w] = "done" /\ req[w].action = "update"
        /\ resp[w].status = HTTP_403_FORBIDDEN
        /\ \E x \in recipe : x.id = req[w].pk /\ x.author # req[w].user
        /\ pc[v] = "done" /\ req[v].action = "retrieve" /\ req[v].user = AnonymousUser
        /\ req[v].pk = req[w].pk
        /\ resp[v].status = HTTP_200_OK

\* what a read gives back of the lists of a payload: the same tags as a set and the
\* same (ingredient, amount) pairs as an unordered collection
SameLists(data, read) ==
    /\ Len(read.tags) = Len(data.tags)
    /\ {read.tags[i].id : i \in DOMAIN read.tags} = {data.tags[i] : i \in DOMAIN data.tags}
    /\ Len(read.ingredients) = Len(data.ingredients)
    /\ {<<read.ingredients[i].id, read.ingredients[i].amount>> : i \in DOMAIN read.ingredients}
           = {<<data.ingredients[i].id, data.ingredients[i].amount>> :
                  i \in DOMAIN data.ingredients}

\* a read that follows a create in this step: the response of the create itself
\* (to_representation), or a retrieve of the recipe a finished create answered with
ReadsAfterCreate ==
    {<<req[w].data, resp'[w].recipe>> :
        w \in {p \in Procs : pc[p] = "save" /\ pc'[p] = "done"
                             /\ resp'[p].status = HTTP_201_CREATED}}
    \cup
    {<<req[pair[1]].data, resp'[pair[2]].recipe>> :
        pair \in {q \in Procs \X Procs :
                    /\ pc[q[1]] = "done" /\ req[q[1]].action = "create"
                    /\ resp[q[1]].status = HTTP_201_CREATED
                    /\ pc[q[2]] = "idle" /\ pc'[q[2]] = "done"
                    /\ req'[q[2]].action = "retrieve"
                    /\ req'[q[2]].pk = resp[q[1]].recipe.id
                    /\ resp'[q[2]].status = HTTP_200_OK}}

====
